---- MODULE Spec2Model ----
(***************************************************************************)
(* Proxmox secrets backend: the connection profile handlers                *)
(* (path_config.go), the cached upstream client guarded by a               *)
(* sync.RWMutex (backend.go) and the client constructor.                   *)
(*                                                                         *)
(* Every request runs on its own goroutine p.  A handler is cut into steps *)
(* at the points where another goroutine can observe or change shared      *)
(* state: storage calls and lock operations.  Purely local computation     *)
(* (field merging, validation) is part of the step that precedes it.       *)
(***************************************************************************)
EXTENDS Integers, Sequences, FiniteSets, TLC

(***************************************************************************)
(* Bounds of the model.                                                    *)
(***************************************************************************)
\* number of goroutines serving requests concurrently
NProcs == 2
\* number of connection handles newClient may construct in one behaviour
MaxBuilds == 2

Procs == 1..NProcs

(***************************************************************************)
(* Program constants.                                                      *)
(***************************************************************************)
\* time.Second, counted in ticks of a millisecond instead of a nanosecond
\* so that durations stay inside TLC's 32-bit integers
Second == 1000
\* framework schema default of "timeout"
DefaultTimeout == 120

configStoragePath == "config"

(***************************************************************************)
(* Values.                                                                 *)
(***************************************************************************)
\* a nil pointer / an absent storage entry
Nil == [nil |-> TRUE]

\* new(proxmoxConfig): the zero value of the struct
ZeroConfig ==
  [User |-> "", Realm |-> "", ApiTokenID |-> "", ApiTokenSecret |-> "",
   ApiURL |-> "", SkipCertValidation |-> FALSE, HTTPHeaders |-> "",
   ProxyServer |-> "", TaskTimeout |-> 0]

\* logical.StorageEntryJSON: the struct encoded under its json tags
StorageEntryJSON(c) ==
  [user |-> c.User, realm |-> c.Realm, token_id |-> c.ApiTokenID,
   token_secret |-> c.ApiTokenSecret, proxmox_url |-> c.ApiURL,
   insecure_skip_tls_verify |-> c.SkipCertValidation,
   http_headers |-> c.HTTPHeaders, proxy_server |-> c.ProxyServer,
   timeout |-> c.TaskTimeout]

\* entry.DecodeJSON into a proxmoxConfig
DecodeJSON(e) ==
  [User |-> e.user, Realm |-> e.realm, ApiTokenID |-> e.token_id,
   ApiTokenSecret |-> e.token_secret, ApiURL |-> e.proxmox_url,
   SkipCertValidation |-> e.insecure_skip_tls_verify,
   HTTPHeaders |-> e.http_headers, ProxyServer |-> e.proxy_server,
   TaskTimeout |-> e.timeout]

\* getConfig on a storage that answered: nil for no entry, else the profile
getConfig(entry) == IF entry = Nil THEN Nil ELSE DecodeJSON(entry)

\* integer division truncating toward zero, as Go's / and int(float64)
TruncDiv(a, b) == IF a >= 0 THEN a \div b ELSE -((-a) \div b)

\* variant of DurationOfSeconds: the factor time.Second is left out
DurationOfSecondsUnscaled(n) == n

\* time.Duration(n) * time.Second
DurationOfSeconds(n) == n * Second

\* int(d.Seconds())
Seconds(d) == TruncDiv(d, Second)

(***************************************************************************)
(* framework.FieldData                                                     *)
(***************************************************************************)
\* second result of data.GetOk(k): the key is present in the raw request
GetOk(data, k) == k \in DOMAIN data

\* data.GetDefaultOrZero(k) for the optional fields of the config schema
GetDefaultOrZero(k) ==
  CASE k = "insecure_skip_tls_verify" -> FALSE
    [] k = "http_headers" -> ""
    [] k = "proxy_server" -> ""
    [] k = "timeout" -> DefaultTimeout

(***************************************************************************)
(* pathConfigWrite, the part between getConfig and the storage put         *)
(***************************************************************************)
Failed(msg) == [err |-> msg, config |-> Nil]
Merged(c) == [err |-> "", config |-> c]

\* variant of pathConfigWriteLoad: an update without a stored profile starts
\* from the zero struct as a create does
pathConfigWriteLoadOrNew(config, createOperation) ==
  IF config = Nil THEN Merged(ZeroConfig) ELSE Merged(config)

\* lines 169-174: an update needs a stored profile, a create starts from the
\* zero struct when none is stored
pathConfigWriteLoad(config, createOperation) ==
  IF config = Nil
    THEN IF ~createOperation
           THEN Failed("config not found during update operation")
           ELSE Merged(ZeroConfig)
    ELSE Merged(config)

\* variant of pathConfigWriteOptional: an unsupplied optional field takes
\* its default on update too
pathConfigWriteOptionalDefaults(c, data, createOperation) ==
  [c EXCEPT
     !.SkipCertValidation =
        IF GetOk(data, "insecure_skip_tls_verify")
          THEN data.insecure_skip_tls_verify
          ELSE GetDefaultOrZero("insecure_skip_tls_verify"),
     !.HTTPHeaders =
        IF GetOk(data, "http_headers")
          THEN data.http_headers ELSE GetDefaultOrZero("http_headers"),
     !.ProxyServer =
        IF GetOk(data, "proxy_server")
          THEN data.proxy_server ELSE GetDefaultOrZero("proxy_server"),
     !.TaskTimeout =
        IF GetOk(data, "timeout")
          THEN DurationOfSeconds(data.timeout)
          ELSE DurationOfSeconds(GetDefaultOrZero("timeout"))]

\* lines 208-230: the optional fields; a supplied value is stored, an
\* unsupplied one takes the schema default on create and is kept on update
pathConfigWriteOptional(c, data, createOperation) ==
  LET c1 == IF GetOk(data, "insecure_skip_tls_verify")
              THEN [c EXCEPT !.SkipCertValidation = data.insecure_skip_tls_verify]
              ELSE IF createOperation
                     THEN [c EXCEPT !.SkipCertValidation =
                                      GetDefaultOrZero("insecure_skip_tls_verify")]
                     ELSE c
      c2 == IF GetOk(data, "http_headers")
              THEN [c1 EXCEPT !.HTTPHeaders = data.http_headers]
              ELSE IF createOperation
                     THEN [c1 EXCEPT !.HTTPHeaders = GetDefaultOrZero("http_headers")]
                     ELSE c1
      c3 == IF GetOk(data, "proxy_server")
              THEN [c2 EXCEPT !.ProxyServer = data.proxy_server]
              ELSE IF createOperation
                     THEN [c2 EXCEPT !.ProxyServer = GetDefaultOrZero("proxy_server")]
                     ELSE c2
      c4 == IF GetOk(data, "timeout")
              THEN [c3 EXCEPT !.TaskTimeout = DurationOfSeconds(data.timeout)]
              ELSE IF createOperation
                     THEN [c3 EXCEPT !.TaskTimeout =
                                       DurationOfSeconds(GetDefaultOrZero("timeout"))]
                     ELSE c3
  IN  c4

\* lines 176-206: the five required fields, in source order; the first one
\* missing on create ends the handler
pathConfigWriteRequired(c, data, createOperation) ==
  LET c1 == IF GetOk(data, "user") THEN [c EXCEPT !.User = data.user] ELSE c
      c2 == IF GetOk(data, "realm") THEN [c1 EXCEPT !.Realm = data.realm] ELSE c1
      c3 == IF GetOk(data, "token_id")
              THEN [c2 EXCEPT !.ApiTokenID = data.token_id] ELSE c2
      c4 == IF GetOk(data, "token_secret")
              THEN [c3 EXCEPT !.ApiTokenSecret = data.token_secret] ELSE c3
      urlOk == GetOk(data, "proxmox_url") /\ Len(data.proxmox_url) > 0
      c5 == IF urlOk THEN [c4 EXCEPT !.ApiURL = data.proxmox_url] ELSE c4
  IN  IF ~GetOk(data, "user") /\ createOperation
        THEN Failed("missing user in configuration")
      ELSE IF ~GetOk(data, "realm") /\ createOperation
        THEN Failed("missing realm in configuration")
      ELSE IF ~GetOk(data, "token_id") /\ createOperation
        THEN Failed("missing token_id in configuration")
      ELSE IF ~GetOk(data, "token_secret") /\ createOperation
        THEN Failed("missing token_secret in configuration")
      ELSE IF ~urlOk /\ createOperation
        THEN Failed("missing proxmox_url in configuration")
      ELSE Merged(c5)

\* lines 167-230: what pathConfigWrite hands to the storage put, or the
\* error it returns before reaching it
pathConfigWriteMerge(config, data, createOperation) ==
  LET loaded == pathConfigWriteLoad(config, createOperation)
      required == pathConfigWriteRequired(loaded.config, data, createOperation)
  IN  IF loaded.err # "" THEN loaded
      ELSE IF required.err # "" THEN required
      ELSE Merged(pathConfigWriteOptional(required.config, data, createOperation))

(***************************************************************************)
(* pathConfigRead                                                          *)
(***************************************************************************)
\* variant of pathConfigReadData: the token secret is echoed back
pathConfigReadDataWithSecret(c) ==
  [user |-> c.User, realm |-> c.Realm, token_id |-> c.ApiTokenID,
   token_secret |-> c.ApiTokenSecret,
   proxmox_url |-> c.ApiURL,
   insecure_skip_tls_verify |-> c.SkipCertValidation,
   http_headers |-> c.HTTPHeaders, proxy_server |-> c.ProxyServer,
   timeout |-> Seconds(c.TaskTimeout)]

\* lines 147-158: the response data built from the profile
pathConfigReadData(c) ==
  [user |-> c.User, realm |-> c.Realm, token_id |-> c.ApiTokenID,
   proxmox_url |-> c.ApiURL,
   insecure_skip_tls_verify |-> c.SkipCertValidation,
   http_headers |-> c.HTTPHeaders, proxy_server |-> c.ProxyServer,
   timeout |-> Seconds(c.TaskTimeout)]

\* lines 141-159 once storage answered: c.User on a nil profile is a nil
\* pointer dereference, a run-time panic
pathConfigReadResult(config) ==
  IF config = Nil
    THEN [kind |-> "panic"]
    ELSE [kind |-> "response", data |-> pathConfigReadData(config)]

(***************************************************************************)
(* newClient                                                               *)
(***************************************************************************)
\* what newClient passes to pxapi.NewClient and SetAPIToken
ClientSettings(config) ==
  [fullToken |-> <<config.User, "@", config.Realm, "!", config.ApiTokenID>>,
   secret |-> config.ApiTokenSecret,
   url |-> config.ApiURL,
   insecureSkipVerify |-> config.SkipCertValidation,
   headers |-> config.HTTPHeaders,
   proxy |-> config.ProxyServer,
   taskTimeout |-> Seconds(config.TaskTimeout)]

\* newClient(config): id names the instance pxapi.NewClient allocates,
\* apiOk is whether pxapi.NewClient accepts the settings
\* a constructor that accepts a profile without token id
newClientUnchecked(config, id, apiOk) ==
  IF config = Nil THEN [err |-> "client configuration was nil", client |-> Nil]
  ELSE IF ~apiOk THEN [err |-> "pxapi.NewClient failed", client |-> Nil]
  ELSE [err |-> "", client |-> [id |-> id, settings |-> ClientSettings(config)]]

newClient(config, id, apiOk) ==
  IF config = Nil THEN [err |-> "client configuration was nil", client |-> Nil]
  ELSE IF config.ApiTokenID = ""
    THEN [err |-> "client api token was not defined", client |-> Nil]
  ELSE IF ~apiOk THEN [err |-> "pxapi.NewClient failed", client |-> Nil]
  ELSE [err |-> "", client |-> [id |-> id, settings |-> ClientSettings(config)]]

(***************************************************************************)
(* Requests the model issues.  A request is the raw field map of           *)
(* framework.FieldData: a function from the supplied keys to their values. *)
(***************************************************************************)
RequiredKeys == {"user", "realm", "token_id", "token_secret", "proxmox_url"}
OptionalKeys == {"insecure_skip_tls_verify", "http_headers", "proxy_server", "timeout"}

Without(r, k) == [x \in DOMAIN r \ {k} |-> r[x]]
With(r, k, v) == [x \in DOMAIN r \cup {k} |-> IF x = k THEN v ELSE r[x]]
Only(k, v) == [x \in {k} |-> v]
NoFields == [x \in {} |-> ""]

\* the create request of TestConfig without its timeout
FullRequest ==
  [user |-> "root", realm |-> "pam", token_id |-> "tok",
   token_secret |-> "s1", proxmox_url |-> "https://h"]

\* every required field and every optional field supplied
FullOptionalRequest ==
  [user |-> "root", realm |-> "pam", token_id |-> "tok",
   token_secret |-> "s2", proxmox_url |-> "https://h",
   insecure_skip_tls_verify |-> TRUE, http_headers |-> "K,V",
   proxy_server |-> "http://p", timeout |-> 300]

\* requests of the configuration handlers: complete ones, ones with one
\* required field left out or empty, and partial ones for updates
ConfigRequests ==
  {FullRequest, FullOptionalRequest, NoFields}
    \cup {Without(FullRequest, k) : k \in RequiredKeys}
    \cup {With(FullRequest, k, "") : k \in RequiredKeys}
    \cup {With(FullRequest, "timeout", -1)}
    \cup {Only("user", "bob"), Only("token_secret", "s2"),
          Only("proxmox_url", ""), Only("insecure_skip_tls_verify", TRUE),
          Only("timeout", 30), [user |-> "bob", token_id |-> "tok2"]}

\* a write request: the fields and whether the operation is a create
WriteRequests(fields) == fields \X BOOLEAN

\* write requests of the concurrent model: the creation of a usable profile
\* and a partial update
CacheRequests == {<<FullRequest, TRUE>>, <<Only("user", "bob"), FALSE>>}

\* keys handed to the framework's Invalidate callback
InvalidateKeys == {configStoragePath, "role/x"}

(***************************************************************************)
(* Roles: values and pure parts of the handlers (role path file)           *)
(***************************************************************************)
\* names under which roles are stored
RoleNames == {"web", "db"}

\* names a request may carry in its path: a stored name, one in upper case
\* and the empty name
RequestNames == RoleNames \cup {"Web", ""}

\* framework.TypeLowerCaseString: the name field is lower-cased when read
ToLower(n) == IF n = "Web" THEN "web" ELSE n

\* the proxmoxRoleEntry a write starts from when no role is stored
NewRoleEntry(name) ==
  [Name |-> name, User |-> "", Realm |-> "", TTL |-> 0, MaxTTL |-> 0]

\* logical.StorageEntryJSON of a proxmoxRoleEntry
RoleEntryJSON(r) ==
  [name |-> r.Name, user |-> r.User, realm |-> r.Realm, ttl |-> r.TTL,
   max_ttl |-> r.MaxTTL]

\* entry.DecodeJSON into a proxmoxRoleEntry
DecodeRoleJSON(e) ==
  [Name |-> e.name, User |-> e.user, Realm |-> e.realm, TTL |-> e.ttl,
   MaxTTL |-> e.max_ttl]

\* getRole once the name is not empty and storage answered
getRole(entry) == IF entry = Nil THEN Nil ELSE DecodeRoleJSON(entry)

\* toResponseData: the durations are reported in seconds
toResponseData(r) ==
  [name |-> r.Name, user |-> r.User, realm |-> r.Realm,
   ttl |-> Seconds(r.TTL), max_ttl |-> Seconds(r.MaxTTL)]

\* d.Get("ttl") and d.Get("max_ttl") of a request without the field: the
\* zero value, the schema declares no default
RoleFieldDefault == 0

\* outcomes of the part of pathRolesWrite before setRole
RoleFailed(msg) == [kind |-> "error", err |-> msg, role |-> Nil]
RoleRefused(msg) == [kind |-> "error_response", err |-> msg, role |-> Nil]
RoleMerged(r) == [kind |-> "ok", err |-> "", role |-> r]

\* the merge with the durations of an update reset like those of a create
pathRolesWriteFieldsResetting(roleEntry, data, createOperation) ==
  LET userOk == GetOk(data, "user") /\ Len(data.user) > 0
      realmOk == GetOk(data, "realm") /\ Len(data.realm) > 0
      r1 == IF userOk THEN [roleEntry EXCEPT !.User = data.user] ELSE roleEntry
      r2 == IF realmOk THEN [r1 EXCEPT !.Realm = data.realm] ELSE r1
      r3 == IF GetOk(data, "ttl")
              THEN [r2 EXCEPT !.TTL = DurationOfSeconds(data.ttl)]
              ELSE [r2 EXCEPT !.TTL = DurationOfSeconds(RoleFieldDefault)]
      r4 == IF GetOk(data, "max_ttl")
              THEN [r3 EXCEPT !.MaxTTL = DurationOfSeconds(data.max_ttl)]
              ELSE [r3 EXCEPT !.MaxTTL = DurationOfSeconds(RoleFieldDefault)]
  IN  IF ~userOk /\ createOperation THEN RoleFailed("missing user in role")
      ELSE IF ~realmOk /\ createOperation THEN RoleFailed("missing realm in role")
      ELSE RoleMerged(r4)

\* pathRolesWrite lines 168-194: the request merged into the role entry
pathRolesWriteFields(roleEntry, data, createOperation) ==
  LET userOk == GetOk(data, "user") /\ Len(data.user) > 0
      realmOk == GetOk(data, "realm") /\ Len(data.realm) > 0
      r1 == IF userOk THEN [roleEntry EXCEPT !.User = data.user] ELSE roleEntry
      r2 == IF realmOk THEN [r1 EXCEPT !.Realm = data.realm] ELSE r1
      r3 == IF GetOk(data, "ttl")
              THEN [r2 EXCEPT !.TTL = DurationOfSeconds(data.ttl)]
              ELSE IF createOperation
                     THEN [r2 EXCEPT !.TTL = DurationOfSeconds(RoleFieldDefault)]
                     ELSE r2
      r4 == IF GetOk(data, "max_ttl")
              THEN [r3 EXCEPT !.MaxTTL = DurationOfSeconds(data.max_ttl)]
              ELSE IF createOperation
                     THEN [r3 EXCEPT !.MaxTTL = DurationOfSeconds(RoleFieldDefault)]
                     ELSE r3
  IN  IF ~userOk /\ createOperation THEN RoleFailed("missing user in role")
      ELSE IF ~realmOk /\ createOperation THEN RoleFailed("missing realm in role")
      ELSE RoleMerged(r4)

\* the comparison of line 196 turned around
TTLBelowMax(r) == r.MaxTTL # 0 /\ r.TTL < r.MaxTTL

\* pathRolesWrite line 196: the merged entry breaks the limit
TTLExceedsMax(r) == r.MaxTTL # 0 /\ r.TTL > r.MaxTTL

\* the limit check answering with a Go error instead of an error response
pathRolesWriteMergeHardFailure(stored, name, data, createOperation) ==
  LET roleEntry == IF stored = Nil THEN NewRoleEntry(name) ELSE stored
      merged == pathRolesWriteFields(roleEntry, data, createOperation)
  IN  IF merged.kind # "ok" THEN merged
      ELSE IF TTLExceedsMax(merged.role)
        THEN RoleFailed("ttl cannot be greater than max_ttl")
      ELSE merged

\* pathRolesWrite lines 160-198 once getRole answered: the entry handed to
\* setRole, or the error or error response returned before it
pathRolesWriteMerge(stored, name, data, createOperation) ==
  LET roleEntry == IF stored = Nil THEN NewRoleEntry(name) ELSE stored
      merged == pathRolesWriteFields(roleEntry, data, createOperation)
  IN  IF merged.kind # "ok" THEN merged
      ELSE IF TTLExceedsMax(merged.role)
        THEN RoleRefused("ttl cannot be greater than max_ttl")
      ELSE merged

\* fields of role requests: every combination of a supplied or left out
\* user, realm, ttl and max_ttl
RoleUsers == {"alice", "bob", ""}
RoleRealms == {"pve", ""}
RoleTTLs == {0, 300, 500}
RoleMaxTTLs == {0, 400}

\* a field left out or supplied with one of the values
Optional(k, values) == {NoFields} \cup {Only(k, v) : v \in values}

\* two requests with different fields put together
Join(a, b) ==
  [x \in DOMAIN a \cup DOMAIN b |-> IF x \in DOMAIN a THEN a[x] ELSE b[x]]

RoleRequests ==
  {Join(Join(u, r), Join(t, m)) :
     u \in Optional("user", RoleUsers), r \in Optional("realm", RoleRealms),
     t \in Optional("ttl", RoleTTLs), m \in Optional("max_ttl", RoleMaxTTLs)}

\* a request that supplies every field of a role
FullRoleRequest ==
  [user |-> "alice", realm |-> "pve", ttl |-> 300, max_ttl |-> 400]

\* the role writes: every request for the names of "web", two requests for
\* the other name and one for the empty name
RoleWrites ==
  ({"web", "Web"} \X RoleRequests) \cup ({"db"} \X {FullRoleRequest, NoFields})
    \cup {<<"", FullRoleRequest>>}

(***************************************************************************)
(* Tokens: values and pure parts of createToken and createUserCreds        *)
(***************************************************************************)
\* the arguments without the pair of "9"
ReplacerPairsShort ==
  <<"0", "g", "1", "h", "2", "i", "3", "j", "4", "k",
    "5", "l", "6", "m", "7", "n", "8", "o">>

\* the arguments of strings.NewReplacer: old, new, old, new, ...
ReplacerPairs ==
  <<"0", "g", "1", "h", "2", "i", "3", "j", "4", "k",
    "5", "l", "6", "m", "7", "n", "8", "o", "9", "p">>

\* the table NewReplacer builds from its arguments: each old character with
\* the new one of the first pair that names it
ReplacerTable(pairs) ==
  LET olds == {pairs[i] : i \in {j \in 1..Len(pairs) : j % 2 = 1}}
      first(c) == CHOOSE i \in 1..Len(pairs) :
                    /\ i % 2 = 1 /\ pairs[i] = c
                    /\ \A j \in 1..(i - 1) : j % 2 = 1 => pairs[j] # c
  IN  [c \in olds |-> pairs[first(c) + 1]]

\* the replacer of createToken
Replacer == ReplacerTable(ReplacerPairs)

\* a replacer that turns the digits into the letters from "a" on
ReplaceCharFromA(c) ==
  LET fromA == ReplacerTable(<<"0", "a", "1", "b", "2", "c", "3", "d", "4", "e",
                               "5", "f", "6", "g", "7", "h", "8", "i", "9", "j">>)
  IN  IF c \in DOMAIN fromA THEN fromA[c] ELSE c

\* the replacer applied to one character: a character of the table is
\* replaced, any other stays
ReplaceChar(c) == IF c \in DOMAIN Replacer THEN Replacer[c] ELSE c

\* Replacer.Replace on a string given as the sequence of its characters
Replace(chars) == [i \in 1..Len(chars) |-> ReplaceChar(chars[i])]

\* the string made of the characters of a sequence
RECURSIVE StringOf(_)
StringOf(chars) ==
  IF chars = <<>> THEN "" ELSE Head(chars) \o StringOf(Tail(chars))

\* longest source identifier of the remap on its own
MaxUuidLen == 2

\* the characters of uuid.UUID.String(): lower-case hexadecimal digits and
\* the separator
HexChars ==
  {"0", "1", "2", "3", "4", "5", "6", "7", "8", "9", "a", "b", "c", "d", "e", "f"}

UuidChars == HexChars \cup {"-"}

\* the source identifiers: like the string of a UUID they start with a
\* hexadecimal digit
SourceIds ==
  UNION {{id \in [1..n -> UuidChars] : id[1] \in HexChars} : n \in 1..MaxUuidLen}

\* values uuid.New().String() returns, shortened; each is returned once
Uuids ==
  {<<"0", "a", "-", "1">>, <<"a", "a", "-", "1">>, <<"9", "f", "-", "0">>}

\* secrets the remote API makes up for a new token
RemoteSecrets == {"s1", "s2"}

\* instants of time.Now(), in ticks
Times == {100 * Second, 200 * Second + 500}

\* time.Time.Unix(): the whole seconds of an instant
Unix(t) == TruncDiv(t, Second)

\* proxmoxBackend.createToken lines 502-505: the expiry handed to the API
\* an expiry computed from the clock whatever the TTL
ExpireOfClock(role, now) == Unix(now + role.TTL)

ExpireOf(role, now) == IF role.TTL > 0 THEN Unix(now + role.TTL) ELSE 0

\* the pxapi.UserID and pxapi.ApiToken of u.CreateApiToken
ApiToken(user, realm, tokenId, expire, privsep) ==
  [user |-> user, realm |-> realm, tokenId |-> tokenId,
   comment |-> "Managed by Vault", expire |-> expire, privsep |-> privsep]

\* createToken (proxmox_api_token.go 106-133): the token or the error, and
\* the API token created on the remote side if any.  raw is the value of
\* uuid.New(), userOk and apiOk are whether NewConfigUserFromApi and
\* CreateApiToken succeed, secret is what CreateApiToken returns.
createTokenHelper(user, realm, expire, privsep, raw, userOk, apiOk, secret) ==
  LET tokenId == StringOf(Replace(raw))
  IN  IF Len(user) = 0
        THEN [err |-> "error creating token: no user provided", token |-> Nil,
              sent |-> Nil, drawn |-> FALSE]
      ELSE IF Len(realm) = 0
        THEN [err |-> "error creating token: no realm provided", token |-> Nil,
              sent |-> Nil, drawn |-> FALSE]
      ELSE IF ~userOk
        THEN [err |-> "error when setting up API user", token |-> Nil,
              sent |-> Nil, drawn |-> TRUE]
      ELSE IF ~apiOk
        THEN [err |-> "error from API when creating token", token |-> Nil,
              sent |-> Nil, drawn |-> TRUE]
      ELSE [err |-> "", token |-> [TokenID |-> tokenId, Secret |-> secret],
            sent |-> ApiToken(user, realm, tokenId, expire, privsep),
            drawn |-> TRUE]

\* the lease with both limits taken from the role's TTL
LeaseOptionsFromTTL(role) ==
  Join(IF role.TTL > 0 THEN Only("ttl", role.TTL) ELSE NoFields,
       IF role.TTL > 0 THEN Only("max_ttl", role.TTL) ELSE NoFields)

\* the fields of resp.Secret that createUserCreds assigns (lines 539-545);
\* a field that is not assigned is left out
LeaseOptions(role) ==
  Join(IF role.TTL > 0 THEN Only("ttl", role.TTL) ELSE NoFields,
       IF role.MaxTTL > 0 THEN Only("max_ttl", role.MaxTTL) ELSE NoFields)

\* the response data with the full id built from the role's name
ResponseDataByName(role, token) ==
  [token_id |-> token.TokenID,
   token_id_full |-> role.Name \o "@" \o role.Realm \o "!" \o token.TokenID,
   secret |-> token.Secret]

\* createUserCreds lines 528-533: tokenIDFull and the response data
ResponseData(role, token) ==
  [token_id |-> token.TokenID,
   token_id_full |-> role.User \o "@" \o role.Realm \o "!" \o token.TokenID,
   secret |-> token.Secret]

\* the internal data with the secret kept next to the id
InternalDataWithSecret(role, token) ==
  [token_id |-> token.TokenID, role |-> role.Name, secret |-> token.Secret]

\* createUserCreds lines 534-537: the internal data of the lease
InternalData(role, token) ==
  [token_id |-> token.TokenID, role |-> role.Name]

\* createUserCreds lines 528-547: the response made of the token
createUserCredsResponse(role, token) ==
  [kind |-> "secret",
   data |-> ResponseData(role, token),
   internal |-> InternalData(role, token),
   lease |-> LeaseOptions(role)]

\* the role writes used with token requests
TokenRoleWrites ==
  {<<"web", FullRoleRequest>>, <<"web", Only("max_ttl", 0)>>,
   <<"db", [user |-> "bob", realm |-> "pve"]>>,
   <<"db", [user |-> "bob", realm |-> "pve", max_ttl |-> 400]>>}

(***************************************************************************)
(* Leases: values and pure parts of tokenRevoke and tokenRenew             *)
(***************************************************************************)
\* the logical.Secret the lease manager keeps of an Issue response
SecretOf(resp) == [internal |-> resp.internal, lease |-> resp.lease]

\* a secret whose internal data has no role
OrphanSecret == [internal |-> Only("token_id", "ga-h"), lease |-> NoFields]

\* tokenRevoke lines 48-55: tokenID stays "" without the internal entry
RevokeTokenID(secret) ==
  IF "token_id" \in DOMAIN secret.internal THEN secret.internal.token_id ELSE ""

\* a lookup that takes a role that is not stored for an empty one
revokeRoleLenient(secret, stored, fault) ==
  IF "role" \notin DOMAIN secret.internal
    THEN [err |-> "", roleEntry |-> NewRoleEntry("")]
  ELSE IF stored = Nil
    THEN [err |-> "", roleEntry |-> NewRoleEntry(secret.internal.role)]
  ELSE [err |-> "", roleEntry |-> getRole(stored)]

\* tokenRevoke lines 57-70: the role of the internal data is looked up;
\* stored is what the storage holds under its name, fault a failing read
revokeRole(secret, stored, fault) ==
  IF "role" \notin DOMAIN secret.internal
    THEN [err |-> "secret is missing role internal data", roleEntry |-> Nil]
  ELSE IF secret.internal.role = ""
    THEN [err |-> "error retrieving role: missing role name", roleEntry |-> Nil]
  ELSE IF fault
    THEN [err |-> "error retrieving role: storage get failed", roleEntry |-> Nil]
  ELSE IF getRole(stored) = Nil
    THEN [err |-> "error retrieving role: role is nil", roleEntry |-> Nil]
  ELSE [err |-> "", roleEntry |-> getRole(stored)]

\* deleteToken (proxmox_api_token.go 135-147): the error, and the token the
\* remote side was asked to delete if the call was made.  userOk and apiOk
\* are whether NewConfigUserFromApi and DeleteApiToken succeed.
deleteToken(user, realm, tokenID, userOk, apiOk) ==
  IF ~userOk THEN [err |-> "error when setting up API user", asked |-> Nil]
  ELSE [err |-> IF apiOk THEN "" ELSE "error from API when deleting token",
        asked |-> [user |-> user, realm |-> realm, tokenId |-> tokenID]]

\* the tokens left on the remote side once it deleted the one asked for
RemoteDelete(tokens, asked) ==
  {t \in tokens : ~(t.user = asked.user /\ t.realm = asked.realm
                     /\ t.tokenId = asked.tokenId)}

\* a renew that answers with a secret made anew, without the token_id
RenewedSecretBare(secret, role) ==
  [internal |-> Only("role", secret.internal.role), lease |-> LeaseOptions(role)]

\* tokenRenew lines 92-102: the request's secret with the limits of the
\* role assigned where they are above 0
RenewedSecret(secret, role) ==
  [internal |-> secret.internal, lease |-> Join(LeaseOptions(role), secret.lease)]

\* the profile requests used with leases: the full one and one whose
\* token_id is empty
LeaseConfigRequests == {FullRequest, With(FullRequest, "token_id", "")}

\* the role writes used with leases, each with its createOperation: the
\* role is created, updated with another user, updated with its limits 0
LeaseRoleWrites ==
  {<<"web", FullRoleRequest, TRUE>>, <<"web", Only("user", "bob"), FALSE>>,
   <<"web", [ttl |-> 0, max_ttl |-> 0], FALSE>>}

(***************************************************************************)
(* State                                                                   *)
(***************************************************************************)
VARIABLES
  storage,   \* the storage entry under "config": Nil or its JSON record
  client,    \* b.client: Nil or the cached connection handle
  readers,   \* b.lock: goroutines holding the read lock
  wholder,   \* b.lock: the goroutine that called Lock (0 if none); it
             \* keeps new readers out from the call until its Unlock
  wactive,   \* b.lock: wholder has been granted exclusive access
  pc,        \* position of each goroutine
  op,        \* the request each goroutine serves or served last
  local,     \* the handler's local variables
  result,    \* what the last handler of each goroutine returned
  nextId,    \* the next connection handle newClient will allocate
  returned   \* history: ids of the handles getClient returned since the
             \* last reset cleared the cache

VARIABLES
  roles,     \* the storage entries under "role/": for each name Nil or the
             \* JSON record of the role
  written    \* history: names of the roles written successfully and not
             \* deleted since

roleVars == <<roles, written>>

VARIABLES
  caller,    \* per goroutine: the locals of the handler that called
             \* getClient, or Nil
  remote,    \* the API tokens that exist on the Proxmox side
  usedUuids  \* the values uuid.New() has returned so far

tokenVars == <<caller, remote, usedUuids>>

VARIABLES
  rawTokenId,  \* createToken's rawTokenId as a sequence of characters, <<>>
               \* before uuid.New()
  tokenId      \* createToken's tokenId, <<>> before the replacer ran

remapVars == <<rawTokenId, tokenId>>

VARIABLES
  leases     \* the secrets the lease manager keeps: for each lease the
             \* internal data and the lease options of the last response

leaseVars == <<leases>>

\* the state outside the configuration handlers and the client cache
engineVars == <<roleVars, tokenVars, remapVars, leaseVars>>

vars == <<storage, client, readers, wholder, wactive, pc, op, local, result,
          nextId, returned, engineVars>>

lockVars == <<readers, wholder, wactive>>

Init ==
  /\ storage = Nil
  /\ client = Nil
  /\ readers = {}
  /\ wholder = 0
  /\ wactive = FALSE
  /\ pc = [p \in Procs |-> "idle"]
  /\ op = [p \in Procs |-> [kind |-> "none"]]
  /\ local = [p \in Procs |-> Nil]
  /\ result = [p \in Procs |-> [kind |-> "none"]]
  /\ nextId = 1
  /\ returned = {}
  /\ roles = [n \in RoleNames |-> Nil]
  /\ written = {}
  /\ caller = [p \in Procs |-> Nil]
  /\ remote = {}
  /\ usedUuids = {}
  /\ rawTokenId = <<>>
  /\ tokenId = <<>>
  /\ leases = {}

Ok ==[kind |-> "ok"]
Error(msg) == [kind |-> "error", err |-> msg]

\* the handler of p returns r
Return(p, r) ==
  /\ pc' = [pc EXCEPT ![p] = "done"]
  /\ local' = [local EXCEPT ![p] = Nil]
  /\ result' = [result EXCEPT ![p] = r]

\* a new request arrives at the idle goroutine p
Begin(p, o) ==
  /\ pc[p] = "idle"
  /\ op' = [op EXCEPT ![p] = o]

\* the response of p has been delivered; the goroutine is free again
Finish(p) ==
  /\ pc[p] = "done"
  /\ pc' = [pc EXCEPT ![p] = "idle"]
  /\ op' = [op EXCEPT ![p] = [kind |-> "none"]]
  /\ result' = [result EXCEPT ![p] = [kind |-> "none"]]
  /\ UNCHANGED <<storage, client, readers, wholder, wactive, local, nextId, returned>>
  /\ UNCHANGED engineVars

Goto(p, label) == pc' = [pc EXCEPT ![p] = label]

(***************************************************************************)
(* sync.RWMutex                                                            *)
(***************************************************************************)
\* RLock returns: no writer holds the lock or waits for it
RLock(p) ==
  /\ wholder = 0
  /\ readers' = readers \cup {p}
  /\ UNCHANGED <<wholder, wactive>>

RUnlock(p) ==
  /\ readers' = readers \ {p}
  /\ UNCHANGED <<wholder, wactive>>

\* Lock, first half: take the writer mutex and announce the writer
LockAnnounce(p) ==
  /\ wholder = 0
  /\ wholder' = p
  /\ UNCHANGED <<readers, wactive>>

\* Lock, second half: the readers have left, Lock returns
LockAcquire(p) ==
  /\ wholder = p
  /\ ~wactive
  /\ readers = {}
  /\ wactive' = TRUE
  /\ UNCHANGED <<readers, wholder>>

Unlock(p) ==
  /\ wholder' = 0
  /\ wactive' = FALSE
  /\ UNCHANGED readers

(***************************************************************************)
(* reset (backend.go 54-58), entered at "rs_lock"                          *)
(***************************************************************************)
\* b.lock.Lock() is called
resetLock(p) ==
  /\ pc[p] = "rs_lock"
  /\ LockAnnounce(p)
  /\ Goto(p, "rs_wait")
  /\ UNCHANGED <<storage, client, op, local, result, nextId, returned>>
  /\ UNCHANGED engineVars

\* b.lock.Lock() returns
resetLocked(p) ==
  /\ pc[p] = "rs_wait"
  /\ LockAcquire(p)
  /\ Goto(p, "rs_clear")
  /\ UNCHANGED <<storage, client, op, local, result, nextId, returned>>
  /\ UNCHANGED engineVars

\* variant of resetClear: the lock is taken and released but the cached
\* handle is left in place
resetClearKeepsClient(p) ==
  /\ pc[p] = "rs_clear"
  /\ Unlock(p)
  /\ Return(p, Ok)
  /\ UNCHANGED <<storage, client, op, nextId, returned>>
  /\ UNCHANGED engineVars

\* line 57 and the deferred unlock of line 56: b.client = nil, then
\* b.lock.Unlock(); reset returns and its caller, which has nothing left to
\* do, returns (nil, nil)
resetClear(p) ==
  /\ pc[p] = "rs_clear"
  /\ client' = Nil
  /\ returned' = {}
  /\ Unlock(p)
  /\ Return(p, Ok)
  /\ UNCHANGED <<storage, op, nextId>>
  /\ UNCHANGED engineVars

(***************************************************************************)
(* invalidate (backend.go 60-64)                                           *)
(***************************************************************************)
invalidate(p, key) ==
  /\ Begin(p, [kind |-> "invalidate", key |-> key])
  /\ IF key = "config"
       THEN /\ Goto(p, "rs_lock")
            /\ local' = [local EXCEPT ![p] = Nil]
            /\ result' = [result EXCEPT ![p] = [kind |-> "none"]]
       ELSE Return(p, Ok)
  /\ UNCHANGED <<storage, client, lockVars, nextId, returned>>
  /\ UNCHANGED engineVars

(***************************************************************************)
(* getClient (backend.go 66-94)                                            *)
(***************************************************************************)
\* positions of getClient from which newClient can still be reached
BuildAhead ==
  {"gc_check", "gc_runlock", "gc_lock", "gc_wait", "gc_getConfig", "gc_newClient"}

\* line 67-69: b.lock.RLock(); unlockFunc := b.lock.RUnlock.  A call is
\* admitted only while the handles it and the calls under way may allocate
\* stay within MaxBuilds.
getClientRLock(p) ==
  /\ Begin(p, [kind |-> "getClient"])
  /\ nextId + Cardinality({q \in Procs : pc[q] \in BuildAhead}) <= MaxBuilds
  /\ RLock(p)
  /\ Goto(p, "gc_check")
  /\ local' = [local EXCEPT ![p] = [unlockFunc |-> "RUnlock"]]
  /\ result' = [result EXCEPT ![p] = [kind |-> "none"]]
  /\ UNCHANGED <<storage, client, nextId, returned>>
  /\ UNCHANGED engineVars

\* lines 71-73: if b.client != nil { return b.client, nil }
getClientCheck(p) ==
  /\ pc[p] = "gc_check"
  /\ IF client # Nil
       THEN /\ result' = [result EXCEPT ![p] = [kind |-> "client", client |-> client]]
            /\ Goto(p, "gc_return")
       ELSE /\ Goto(p, "gc_runlock")
            /\ UNCHANGED result
  /\ UNCHANGED <<storage, client, lockVars, op, local, nextId, returned>>
  /\ UNCHANGED engineVars

\* line 75: b.lock.RUnlock()
getClientRUnlock(p) ==
  /\ pc[p] = "gc_runlock"
  /\ RUnlock(p)
  /\ Goto(p, "gc_lock")
  /\ UNCHANGED <<storage, client, op, local, result, nextId, returned>>
  /\ UNCHANGED engineVars

\* line 76: b.lock.Lock() is called
getClientLock(p) ==
  /\ pc[p] = "gc_lock"
  /\ LockAnnounce(p)
  /\ Goto(p, "gc_wait")
  /\ UNCHANGED <<storage, client, op, local, result, nextId, returned>>
  /\ UNCHANGED engineVars

\* variant of getClientLocked: the deferred unlockFunc is left at RUnlock
getClientLockedKeepsRUnlock(p) ==
  /\ pc[p] = "gc_wait"
  /\ LockAcquire(p)
  /\ Goto(p, "gc_getConfig")
  /\ UNCHANGED <<storage, client, op, local, result, nextId, returned>>
  /\ UNCHANGED engineVars

\* lines 76-77: b.lock.Lock() returns; unlockFunc = b.lock.Unlock.  The
\* cache is not looked at again.
getClientLocked(p) ==
  /\ pc[p] = "gc_wait"
  /\ LockAcquire(p)
  /\ local' = [local EXCEPT ![p] = [unlockFunc |-> "Unlock"]]
  /\ Goto(p, "gc_getConfig")
  /\ UNCHANGED <<storage, client, op, result, nextId, returned>>
  /\ UNCHANGED engineVars

\* lines 79-86: config, err := getConfig(ctx, s); a missing profile is
\* replaced by new(proxmoxConfig)
getClientGetConfig(p) ==
  /\ pc[p] = "gc_getConfig"
  /\ \E fault \in BOOLEAN :
       IF fault
         THEN /\ result' = [result EXCEPT ![p] = Error("storage get failed")]
              /\ Goto(p, "gc_return")
              /\ UNCHANGED local
         ELSE LET config == getConfig(storage)
              IN  /\ local' = [local EXCEPT ![p] =
                                 [unlockFunc |-> local[p].unlockFunc,
                                  config |-> IF config = Nil THEN ZeroConfig ELSE config]]
                  /\ Goto(p, "gc_newClient")
                  /\ UNCHANGED result
  /\ UNCHANGED <<storage, client, lockVars, op, nextId, returned>>
  /\ UNCHANGED engineVars

\* lines 88-93: b.client, err = newClient(config)
getClientNewClient(p) ==
  /\ pc[p] = "gc_newClient"
  /\ \E apiOk \in BOOLEAN :
       LET built == newClient(local[p].config, nextId, apiOk)
       IN  /\ client' = built.client
           /\ IF built.err # ""
                THEN /\ result' = [result EXCEPT ![p] = Error(built.err)]
                     /\ UNCHANGED nextId
                ELSE /\ result' = [result EXCEPT ![p] =
                                     [kind |-> "client", client |-> built.client]]
                     /\ nextId' = nextId + 1
  /\ Goto(p, "gc_return")
  /\ UNCHANGED <<storage, lockVars, op, local, returned>>
  /\ UNCHANGED engineVars

\* line 69: the deferred unlockFunc(), then getClient returns: to the
\* request itself, or to createToken or tokenRevoke that called it
getClientReturn(p) ==
  /\ pc[p] = "gc_return"
  /\ IF local[p].unlockFunc = "RUnlock" THEN RUnlock(p) ELSE Unlock(p)
  /\ returned' = IF result[p].kind = "client"
                   THEN returned \cup {result[p].client.id}
                   ELSE returned
  /\ IF op[p].kind = "getClient"
       THEN Return(p, result[p])
       ELSE /\ Goto(p, IF op[p].kind = "revoke" THEN "rv_client" ELSE "ct_client")
            /\ local' = [local EXCEPT ![p] = Nil]
            /\ UNCHANGED result
  /\ UNCHANGED <<storage, client, op, nextId>>
  /\ UNCHANGED engineVars

(***************************************************************************)
(* pathConfigRead (path_config.go 141-159)                                 *)
(***************************************************************************)
pathConfigRead(p) ==
  /\ Begin(p, [kind |-> "config_read"])
  /\ \E fault \in BOOLEAN :
       IF fault
         THEN Return(p, Error("storage get failed"))
         ELSE Return(p, pathConfigReadResult(getConfig(storage)))
  /\ UNCHANGED <<storage, client, lockVars, nextId, returned>>
  /\ UNCHANGED engineVars

(***************************************************************************)
(* pathConfigWrite (path_config.go 161-244)                                *)
(***************************************************************************)
\* lines 162-230: read the stored profile, merge the request into it
pathConfigWrite(p, data, createOperation) ==
  /\ Begin(p, [kind |-> IF createOperation THEN "config_create" ELSE "config_update",
               data |-> data])
  /\ \E fault \in BOOLEAN :
       IF fault
         THEN Return(p, Error("storage get failed"))
         ELSE LET merged == pathConfigWriteMerge(getConfig(storage), data,
                                                  createOperation)
              IN  IF merged.err # ""
                    THEN Return(p, Error(merged.err))
                    ELSE /\ Goto(p, "cw_put")
                         /\ local' = [local EXCEPT ![p] =
                                        [config |-> merged.config]]
                         /\ result' = [result EXCEPT ![p] = [kind |-> "none"]]
  /\ UNCHANGED <<storage, client, lockVars, nextId, returned>>
  /\ UNCHANGED engineVars

\* variant of pathConfigWritePut: the handler returns after the put without
\* calling b.reset()
pathConfigWritePutNoReset(p) ==
  /\ pc[p] = "cw_put"
  /\ \E fault \in BOOLEAN :
       IF fault
         THEN /\ Return(p, Error("storage put failed"))
              /\ UNCHANGED storage
         ELSE /\ storage' = StorageEntryJSON(local[p].config)
              /\ Return(p, Ok)
  /\ UNCHANGED <<client, lockVars, op, nextId, returned>>
  /\ UNCHANGED engineVars

\* lines 232-241: the storage put; on success the handler goes on to
\* b.reset()
pathConfigWritePut(p) ==
  /\ pc[p] = "cw_put"
  /\ \E fault \in BOOLEAN :
       IF fault
         THEN /\ Return(p, Error("storage put failed"))
              /\ UNCHANGED storage
         ELSE /\ storage' = StorageEntryJSON(local[p].config)
              /\ Goto(p, "rs_lock")
              /\ UNCHANGED <<local, result>>
  /\ UNCHANGED <<client, lockVars, op, nextId, returned>>
  /\ UNCHANGED engineVars

(***************************************************************************)
(* pathConfigDelete (path_config.go 246-254)                               *)
(***************************************************************************)
pathConfigDelete(p) ==
  /\ Begin(p, [kind |-> "config_delete"])
  /\ \E fault \in BOOLEAN :
       IF fault
         THEN /\ Return(p, Error("storage delete failed"))
              /\ UNCHANGED storage
         ELSE /\ storage' = Nil
              /\ Goto(p, "rs_lock")
              /\ local' = [local EXCEPT ![p] = Nil]
              /\ result' = [result EXCEPT ![p] = [kind |-> "none"]]
  /\ UNCHANGED <<client, lockVars, nextId, returned>>
  /\ UNCHANGED engineVars

(***************************************************************************)
(* Specifications                                                          *)
(***************************************************************************)
\* the steps of goroutine p, its requests drawn from reqs
Step(p, reqs) ==
  \/ getClientRLock(p)
  \/ getClientCheck(p)
  \/ getClientRUnlock(p)
  \/ getClientLock(p)
  \/ getClientLocked(p)
  \/ getClientGetConfig(p)
  \/ getClientNewClient(p)
  \/ getClientReturn(p)
  \/ resetLock(p)
  \/ resetLocked(p)
  \/ resetClear(p)
  \/ \E key \in InvalidateKeys : invalidate(p, key)
  \/ pathConfigRead(p)
  \/ \E r \in reqs : pathConfigWrite(p, r[1], r[2])
  \/ pathConfigWritePut(p)
  \/ pathConfigDelete(p)
  \/ Finish(p)

\* concurrent requests on every goroutine
Next == \E p \in Procs : Step(p, CacheRequests)

Spec == Init /\ [][Next]_vars

\* the configuration handlers with the full range of requests, one request
\* at a time
NextConfig == Step(1, WriteRequests(ConfigRequests))

SpecConfig == Init /\ [][NextConfig]_vars

(***************************************************************************)
(* Role handlers (role path file 94-223)                                   *)
(***************************************************************************)
\* pathRolesRead: getRole and the response built from the entry
pathRolesRead(p, rawName) ==
  LET name == ToLower(rawName)
  IN  /\ Begin(p, [kind |-> "role_read", name |-> name])
      /\ \E fault \in BOOLEAN :
           IF name = "" THEN Return(p, Error("missing role name"))
           ELSE IF fault THEN Return(p, Error("storage get failed"))
           ELSE IF getRole(roles[name]) = Nil THEN Return(p, [kind |-> "absent"])
           ELSE Return(p, [kind |-> "response",
                           data |-> toResponseData(getRole(roles[name]))])
      /\ UNCHANGED <<storage, client, lockVars, nextId, returned, engineVars>>

\* pathRolesWrite lines 150-198: read the stored role and merge the request
\* into it
pathRolesWrite(p, rawName, data, createOperation) ==
  LET name == ToLower(rawName)
  IN  /\ Begin(p, [kind |-> IF createOperation THEN "role_create" ELSE "role_update",
                   name |-> name, data |-> data])
      /\ \E fault \in BOOLEAN :
           IF name = "" THEN Return(p, Error("missing role name"))
           ELSE IF fault THEN Return(p, Error("storage get failed"))
           ELSE LET merged == pathRolesWriteMerge(getRole(roles[name]), name, data,
                                                  createOperation)
                IN  CASE merged.kind = "error" -> Return(p, Error(merged.err))
                      [] merged.kind = "error_response" ->
                           Return(p, [kind |-> "error_response", err |-> merged.err])
                      [] merged.kind = "ok" ->
                           /\ Goto(p, "rw_put")
                           /\ local' = [local EXCEPT ![p] = [role |-> merged.role]]
                           /\ UNCHANGED result
      /\ UNCHANGED <<storage, client, lockVars, nextId, returned, engineVars>>

\* pathRolesWrite lines 200-204: setRole puts the entry under "role/"+name
pathRolesWritePut(p) ==
  /\ pc[p] = "rw_put"
  /\ \E fault \in BOOLEAN :
       IF fault
         THEN /\ Return(p, Error("storage put failed"))
              /\ UNCHANGED roleVars
         ELSE /\ roles' = [roles EXCEPT ![op[p].name] = RoleEntryJSON(local[p].role)]
              /\ written' = written \cup {op[p].name}
              /\ Return(p, Ok)
  /\ UNCHANGED <<storage, client, lockVars, op, nextId, returned, tokenVars, remapVars, leaseVars>>

\* a delete that clears every key under "role/"
pathRolesDeleteAll(p, rawName) ==
  LET name == ToLower(rawName)
  IN  /\ Begin(p, [kind |-> "role_delete", name |-> name])
      /\ \E fault \in BOOLEAN :
           IF fault
             THEN /\ Return(p, Error("error deleting role"))
                  /\ UNCHANGED roleVars
             ELSE /\ roles' = [n \in RoleNames |-> Nil]
                  /\ written' = written \ {name}
                  /\ Return(p, Ok)
      /\ UNCHANGED <<storage, client, lockVars, nextId, returned, tokenVars, remapVars, leaseVars>>

\* pathRolesDelete: the storage delete of "role/"+name; deleting a key that
\* is not stored is not an error
pathRolesDelete(p, rawName) ==
  LET name == ToLower(rawName)
  IN  /\ Begin(p, [kind |-> "role_delete", name |-> name])
      /\ \E fault \in BOOLEAN :
           IF fault
             THEN /\ Return(p, Error("error deleting role"))
                  /\ UNCHANGED roleVars
             ELSE /\ roles' = [n \in RoleNames |-> IF n = name THEN Nil ELSE roles[n]]
                  /\ written' = written \ {name}
                  /\ Return(p, Ok)
      /\ UNCHANGED <<storage, client, lockVars, nextId, returned, tokenVars, remapVars, leaseVars>>

\* a list that answers with every name the path accepts
pathRolesListAll(p) ==
  /\ Begin(p, [kind |-> "role_list"])
  /\ \E fault \in BOOLEAN :
       IF fault
         THEN Return(p, Error("storage list failed"))
         ELSE Return(p, [kind |-> "list", keys |-> RoleNames])
  /\ UNCHANGED <<storage, client, lockVars, nextId, returned, engineVars>>

\* pathRolesList: the keys stored under "role/"
pathRolesList(p) ==
  /\ Begin(p, [kind |-> "role_list"])
  /\ \E fault \in BOOLEAN :
       IF fault
         THEN Return(p, Error("storage list failed"))
         ELSE Return(p, [kind |-> "list",
                         keys |-> {n \in RoleNames : roles[n] # Nil}])
  /\ UNCHANGED <<storage, client, lockVars, nextId, returned, engineVars>>

\* the steps of the role handlers on goroutine p
RoleStep(p) ==
  \/ \E n \in RequestNames : pathRolesRead(p, n)
  \/ \E w \in RoleWrites, createOperation \in BOOLEAN :
       pathRolesWrite(p, w[1], w[2], createOperation)
  \/ pathRolesWritePut(p)
  \/ \E n \in RequestNames : pathRolesDelete(p, n)
  \/ pathRolesList(p)
  \/ Finish(p)

\* the role handlers, one request at a time
NextRoles == RoleStep(1)

SpecRoles == Init /\ [][NextRoles]_vars

(***************************************************************************)
(* Properties                                                              *)
(***************************************************************************)
ConfigWriteKinds == {"config_create", "config_update", "config_delete"}

\* goroutine p takes a step
Moves(p) == pc'[p] # pc[p]

\* a config write or delete has started and not yet returned
WriteInFlight ==
  \E p \in Procs : op[p].kind \in ConfigWriteKinds /\ pc[p] \notin {"idle", "done"}

\* C1: a config write or delete that returns success returns with the
\* cache empty, and no other step of a config write or delete, in particular
\* none of a failing one, changes the cache.
C1_WriteInvalidatesCache ==
  [][\A p \in Procs :
       (Moves(p) /\ op'[p].kind \in ConfigWriteKinds)
         => IF pc'[p] = "done" /\ result'[p] = Ok
              THEN client' = Nil
              ELSE client' = client]_vars

\* a config update has returned success, a handle had been built before it,
\* and the cache is empty
C1_Witness ==
  \E p \in Procs :
    /\ op[p].kind = "config_update"
    /\ pc[p] = "done"
    /\ result[p] = Ok
    /\ nextId > 1
    /\ client = Nil

\* C2: the handle is built at most once per empty cache: no goroutine is
\* on the build path of getClient, holding the exclusive lock, while a
\* handle is cached.
C2_BuildAtMostOnce ==
  \A p \in Procs : pc[p] \in {"gc_getConfig", "gc_newClient"} => client = Nil

\* C3: all getClient calls that returned a handle since the cache was last
\* cleared returned the same instance.
C3_SameHandleBetweenResets == Cardinality(returned) <= 1

\* C4: while no config write or delete is in flight, a cached handle was
\* built from the profile that is in storage.
C4_CacheMatchesStorage ==
  (~WriteInFlight /\ client # Nil)
    => /\ storage # Nil
       /\ client.settings = ClientSettings(getConfig(storage))

\* a handle built after an update of the profile is cached and no write is
\* in flight
C4_Witness ==
  /\ ~WriteInFlight
  /\ client # Nil
  /\ client.settings.fullToken[1] = "bob"

\* token secrets a stored profile may hold
Secrets == {"", "s1", "s2", "s3"}

\* C5: the response of a config read has no token_secret key and is the
\* same for every profile that differs from the stored one in the token
\* secret only.
C5_ReadHidesSecret ==
  \A p \in Procs :
    (op[p].kind = "config_read" /\ pc[p] = "done" /\ result[p].kind = "response")
      => /\ "token_secret" \notin DOMAIN result[p].data
         /\ \A s \in Secrets :
              pathConfigReadResult([getConfig(storage) EXCEPT !.ApiTokenSecret = s])
                = result[p]

\* a read has answered while the stored profile holds the secret written
\* by an update
C5_Witness ==
  \E p \in Procs :
    /\ op[p].kind = "config_read"
    /\ pc[p] = "done"
    /\ result[p].kind = "response"
    /\ storage # Nil
    /\ storage.token_secret = "s2"
    /\ storage.token_id = "tok"

\* the five required fields are supplied and not empty
RequiredSupplied(data) ==
  \A k \in RequiredKeys : k \in DOMAIN data /\ data[k] # ""

\* C6: a config create returns success only when all five required fields
\* are supplied and not empty.
C6_CreateRequiresNonEmpty ==
  \A p \in Procs :
    (op[p].kind = "config_create" /\ pc[p] = "done" /\ result[p] = Ok)
      => RequiredSupplied(op[p].data)

\* C7: a config update that finds no stored profile returns an error, the
\* not-found one when storage answered, and leaves storage without a
\* profile and the cache as it was.
C7_UpdateWithoutProfile ==
  [][\A p \in Procs :
       (Moves(p) /\ pc[p] = "idle" /\ op'[p].kind = "config_update" /\ storage = Nil)
         => /\ pc'[p] = "done"
            /\ result'[p] \in {Error("config not found during update operation"),
                               Error("storage get failed")}
            /\ storage' = Nil
            /\ client' = client]_vars

\* an update has been refused as not found and no profile is stored
C7_Witness ==
  \E p \in Procs :
    /\ op[p].kind = "config_update"
    /\ pc[p] = "done"
    /\ result[p] = Error("config not found during update operation")
    /\ storage = Nil

\* C8: a config read never ends in a panic; without a stored profile it
\* answers normally.
C8_ReadWithoutProfile ==
  \A p \in Procs :
    (op[p].kind = "config_read" /\ pc[p] = "done") => result[p].kind # "panic"

\* the defaults the schema declares for the optional fields
DeclaredDefaults ==
  [insecure_skip_tls_verify |-> FALSE, http_headers |-> "",
   proxy_server |-> "", timeout |-> 120]

\* what a read is to return after a create with the fields data
ExpectedRead(data) ==
  [k \in (RequiredKeys \ {"token_secret"}) \cup OptionalKeys |->
     IF k \in DOMAIN data THEN data[k] ELSE DeclaredDefaults[k]]

\* C9: once a config create has put its profile, a config read of that
\* profile returns the supplied values and the declared defaults for the
\* optional fields that were not supplied.
C9_CreateReadRoundTrip ==
  [][\A p \in Procs :
       (pc[p] = "cw_put" /\ pc'[p] = "rs_lock" /\ op[p].kind = "config_create")
         => pathConfigReadResult(getConfig(storage'))
              = [kind |-> "response", data |-> ExpectedRead(op[p].data)]]_vars

\* a read has returned the values of a create that left every optional
\* field out
C9_Witness ==
  \E p \in Procs :
    /\ op[p].kind = "config_read"
    /\ pc[p] = "done"
    /\ result[p] = [kind |-> "response", data |-> ExpectedRead(FullRequest)]

\* the keys of a stored profile
ConfigKeys == RequiredKeys \cup OptionalKeys

\* C10: the put of a config update leaves every field that the request did
\* not supply as it was in the stored profile.
C10_UpdateKeepsUnsupplied ==
  [][\A p \in Procs :
       (pc[p] = "cw_put" /\ pc'[p] = "rs_lock" /\ op[p].kind = "config_update")
         => /\ storage # Nil
            /\ \A k \in ConfigKeys \ DOMAIN op[p].data : storage'[k] = storage[k]]_vars

\* an update of the user alone has returned and the stored profile still
\* has the optional values and the secret of the create before it
C10_Witness ==
  \E p \in Procs :
    /\ op[p] = [kind |-> "config_update", data |-> Only("user", "bob")]
    /\ pc[p] = "done"
    /\ result[p] = Ok
    /\ storage = [StorageEntryJSON(DecodeJSON(
                    [FullOptionalRequest EXCEPT !.timeout = 300 * Second]))
                  EXCEPT !.user = "bob"]

(***************************************************************************)
(* Credentials (path_config.go 494-563, proxmox_api_token.go 106-133)      *)
(***************************************************************************)
\* pathCredentialsRead: the role is looked up; a request is admitted only
\* while uuid.New() has a value left to return
pathCredentialsRead(p, rawName) ==
  LET name == ToLower(rawName)
  IN  /\ Begin(p, [kind |-> "creds_read", name |-> name])
      /\ usedUuids # Uuids
      /\ \E fault \in BOOLEAN :
           IF name = ""
             THEN /\ Return(p, Error("error retrieving role: missing role name"))
                  /\ UNCHANGED caller
           ELSE IF fault
             THEN /\ Return(p, Error("error retrieving role: storage get failed"))
                  /\ UNCHANGED caller
           ELSE IF getRole(roles[name]) = Nil
             THEN /\ Return(p, Error("error retrieving role: role is nil"))
                  /\ UNCHANGED caller
           ELSE /\ Goto(p, "ct_getClient")
                /\ caller' = [caller EXCEPT ![p] = [role |-> getRole(roles[name])]]
                /\ UNCHANGED <<local, result>>
      /\ UNCHANGED <<storage, client, lockVars, nextId, returned, roleVars,
                     remote, usedUuids, remapVars, leaseVars>>

\* proxmoxBackend.createToken line 495: b.getClient is entered
createTokenGetClient(p) ==
  /\ pc[p] = "ct_getClient"
  /\ nextId + Cardinality({q \in Procs : pc[q] \in BuildAhead}) <= MaxBuilds
  /\ RLock(p)
  /\ Goto(p, "gc_check")
  /\ local' = [local EXCEPT ![p] = [unlockFunc |-> "RUnlock"]]
  /\ result' = [result EXCEPT ![p] = [kind |-> "none"]]
  /\ UNCHANGED <<storage, client, op, nextId, returned>>
  /\ UNCHANGED engineVars

\* proxmoxBackend.createToken lines 496-519: the error of getClient is
\* passed on, else the token is created on the remote side
\* a handler that tries the remote call again when it failed
createTokenRetried(p, err) ==
  /\ Goto(p, "ct_client")
  /\ UNCHANGED <<local, result, caller>>

\* lines 511-513: the error of the remote call ends the request
createTokenFailed(p, err) ==
  /\ Return(p, Error("error creating Proxmox API token: " \o err))
  /\ caller' = [caller EXCEPT ![p] = Nil]

createToken(p) ==
  /\ pc[p] = "ct_client"
  /\ IF result[p].kind # "client"
       THEN /\ Return(p, result[p])
            /\ caller' = [caller EXCEPT ![p] = Nil]
            /\ UNCHANGED <<remote, usedUuids>>
       ELSE \E now \in Times, raw \in Uuids \ usedUuids, userOk \in BOOLEAN,
               apiOk \in BOOLEAN, secret \in RemoteSecrets :
              LET role == caller[p].role
                  made == createTokenHelper(role.User, role.Realm,
                                            ExpireOf(role, now), FALSE,
                                            raw, userOk, apiOk, secret)
              IN  /\ usedUuids' = IF made.drawn THEN usedUuids \cup {raw}
                                  ELSE usedUuids
                  /\ remote' = IF made.sent # Nil THEN remote \cup {made.sent}
                               ELSE remote
                  /\ IF made.err # ""
                       THEN createTokenFailed(p, made.err)
                       ELSE /\ Goto(p, "cc_respond")
                            /\ local' = [local EXCEPT ![p] =
                                           [token |-> made.token, sent |-> made.sent,
                                            now |-> now]]
                            /\ UNCHANGED <<result, caller>>
  /\ UNCHANGED <<storage, client, lockVars, op, nextId, returned, roleVars,
                 remapVars, leaseVars>>

\* createUserCreds lines 528-547: the token is packed into the response
createUserCreds(p) ==
  /\ pc[p] = "cc_respond"
  /\ Return(p, createUserCredsResponse(caller[p].role, local[p].token))
  /\ caller' = [caller EXCEPT ![p] = Nil]
  /\ UNCHANGED <<storage, client, lockVars, op, nextId, returned, roleVars,
                 remote, usedUuids, remapVars, leaseVars>>

\* the steps of goroutine p that lead to credentials: the profile and the
\* roles are written, credentials are read
TokenStep(p) ==
  \/ pathConfigWrite(p, FullRequest, TRUE)
  \/ pathConfigWritePut(p)
  \/ resetLock(p)
  \/ resetLocked(p)
  \/ resetClear(p)
  \/ \E w \in TokenRoleWrites, createOperation \in BOOLEAN :
       pathRolesWrite(p, w[1], w[2], createOperation)
  \/ pathRolesWritePut(p)
  \/ \E n \in RoleNames : pathRolesDelete(p, n)
  \/ \E n \in RequestNames : pathCredentialsRead(p, n)
  \/ createTokenGetClient(p)
  \/ getClientCheck(p)
  \/ getClientRUnlock(p)
  \/ getClientLock(p)
  \/ getClientLocked(p)
  \/ getClientGetConfig(p)
  \/ getClientNewClient(p)
  \/ getClientReturn(p)
  \/ createToken(p)
  \/ createUserCreds(p)
  \/ Finish(p)

\* credentials requests, one request at a time
NextTokens == TokenStep(1)

SpecTokens == Init /\ [][NextTokens]_vars

(***************************************************************************)
(* Revoke and renew (proxmox_api_token.go 42-104, 135-147)                 *)
(***************************************************************************)
\* the secrets a revoke or renew request may carry: a lease of the lease
\* manager, or a secret without role
RequestSecrets == leases \cup {OrphanSecret}

\* what the storage holds for the role a secret names
StoredRoleOf(secret) ==
  IF "role" \in DOMAIN secret.internal /\ secret.internal.role \in DOMAIN roles
    THEN roles[secret.internal.role] ELSE Nil

\* tokenRevoke line 43: b.getClient is entered
tokenRevoke(p, secret) ==
  /\ Begin(p, [kind |-> "revoke", secret |-> secret])
  /\ nextId + Cardinality({q \in Procs : pc[q] \in BuildAhead}) <= MaxBuilds
  /\ RLock(p)
  /\ Goto(p, "gc_check")
  /\ local' = [local EXCEPT ![p] = [unlockFunc |-> "RUnlock"]]
  /\ result' = [result EXCEPT ![p] = [kind |-> "none"]]
  /\ UNCHANGED <<storage, client, nextId, returned>>
  /\ UNCHANGED engineVars

\* tokenRevoke lines 44-71: the error of getClient is passed on, else the
\* internal data is read and the role looked up
tokenRevokeGetRole(p) ==
  /\ pc[p] = "rv_client"
  /\ LET secret == op[p].secret
     IN  \E fault \in BOOLEAN :
           LET found == revokeRole(secret, StoredRoleOf(secret), fault)
           IN  IF result[p].kind # "client"
                 THEN Return(p, Error("error getting client: " \o result[p].err))
               ELSE IF found.err # ""
                 THEN Return(p, Error(found.err))
               ELSE /\ Goto(p, "rv_delete")
                    /\ local' = [local EXCEPT ![p] =
                                   [roleEntry |-> found.roleEntry,
                                    tokenID |-> RevokeTokenID(secret)]]
                    /\ UNCHANGED result
  /\ UNCHANGED <<storage, client, lockVars, op, nextId, returned>>
  /\ UNCHANGED engineVars

\* tokenRevoke lines 72-75: deleteToken for the user and realm of the role
tokenRevokeDelete(p) ==
  /\ pc[p] = "rv_delete"
  /\ \E userOk \in BOOLEAN, apiOk \in BOOLEAN :
       LET done == deleteToken(local[p].roleEntry.User, local[p].roleEntry.Realm,
                               local[p].tokenID, userOk, apiOk)
       IN  IF done.err # ""
             THEN /\ Return(p, Error("error revoking user token: " \o done.err))
                  /\ UNCHANGED remote
             ELSE /\ Return(p, Ok)
                  /\ remote' = RemoteDelete(remote, done.asked)
  /\ UNCHANGED <<storage, client, lockVars, op, nextId, returned, roleVars,
                 caller, usedUuids, remapVars, leaseVars>>

\* tokenRenew
tokenRenew(p, secret) ==
  /\ Begin(p, [kind |-> "renew", secret |-> secret])
  /\ \E fault \in BOOLEAN :
       IF "role" \notin DOMAIN secret.internal
         THEN Return(p, Error("secret is missing role internal data"))
       ELSE IF secret.internal.role = ""
         THEN Return(p, Error("error retrieving role: missing role name"))
       ELSE IF fault
         THEN Return(p, Error("error retrieving role: storage get failed"))
       ELSE IF getRole(StoredRoleOf(secret)) = Nil
         THEN Return(p, Error("error retrieving role: role is nil"))
       ELSE Return(p, [kind |-> "renewed",
                       secret |-> RenewedSecret(secret,
                                                getRole(StoredRoleOf(secret)))])
  /\ UNCHANGED <<storage, client, lockVars, nextId, returned>>
  /\ UNCHANGED engineVars

\* the response of p has been delivered, through the lease manager: it
\* keeps the secret of an Issue, drops the lease of a revoke that succeeded
\* and keeps the secret a renew answered with
leaseFinish(p) ==
  /\ pc[p] = "done"
  /\ pc' = [pc EXCEPT ![p] = "idle"]
  /\ op' = [op EXCEPT ![p] = [kind |-> "none"]]
  /\ result' = [result EXCEPT ![p] = [kind |-> "none"]]
  /\ leases' =
       IF op[p].kind = "creds_read" /\ result[p].kind = "secret"
         THEN leases \cup {SecretOf(result[p])}
       ELSE IF op[p].kind = "revoke" /\ result[p] = Ok
         THEN leases \ {op[p].secret}
       ELSE IF op[p].kind = "renew" /\ result[p].kind = "renewed"
         THEN (leases \ {op[p].secret}) \cup {result[p].secret}
       ELSE leases
  /\ UNCHANGED <<storage, client, lockVars, local, nextId, returned, roleVars,
                 tokenVars, remapVars>>

\* the number of create-token attempts of a run with leases
MaxTokens == 1

\* the steps of goroutine p around leases: the profile and a role are
\* written, credentials are read, leases are revoked and renewed
LeaseStep(p) ==
  \/ \E r \in LeaseConfigRequests : pathConfigWrite(p, r, TRUE)
  \/ pathConfigWritePut(p)
  \/ pathConfigDelete(p)
  \/ resetLock(p)
  \/ resetLocked(p)
  \/ resetClear(p)
  \/ \E w \in LeaseRoleWrites : pathRolesWrite(p, w[1], w[2], w[3])
  \/ pathRolesWritePut(p)
  \/ pathRolesDelete(p, "web")
  \/ /\ Cardinality(usedUuids) < MaxTokens
     /\ pathCredentialsRead(p, "web")
  \/ createTokenGetClient(p)
  \/ getClientCheck(p)
  \/ getClientRUnlock(p)
  \/ getClientLock(p)
  \/ getClientLocked(p)
  \/ getClientGetConfig(p)
  \/ getClientNewClient(p)
  \/ getClientReturn(p)
  \/ createToken(p)
  \/ createUserCreds(p)
  \/ \E secret \in RequestSecrets : tokenRevoke(p, secret)
  \/ tokenRevokeGetRole(p)
  \/ tokenRevokeDelete(p)
  \/ \E secret \in RequestSecrets : tokenRenew(p, secret)
  \/ leaseFinish(p)

\* lease requests, one request at a time
NextLeases == LeaseStep(1)

SpecLeases == Init /\ [][NextLeases]_vars

(***************************************************************************)
(* The token identifier on its own (proxmox_api_token.go 115-117)          *)
(***************************************************************************)
\* line 115: rawTokenId := uuid.New().String()
uuidNewString ==
  /\ rawTokenId = <<>>
  /\ rawTokenId' \in SourceIds
  /\ UNCHANGED <<storage, client, lockVars, pc, op, local, result, nextId,
                 returned, roleVars, tokenVars, tokenId, leaseVars>>

\* line 117: tokenId := strings.NewReplacer(...).Replace(rawTokenId)
replaceRawTokenId ==
  /\ rawTokenId # <<>>
  /\ tokenId = <<>>
  /\ tokenId' = Replace(rawTokenId)
  /\ UNCHANGED <<storage, client, lockVars, pc, op, local, result, nextId,
                 returned, roleVars, tokenVars, rawTokenId, leaseVars>>

NextRemap == uuidNewString \/ replaceRawTokenId

SpecRemap == Init /\ [][NextRemap]_vars

(***************************************************************************)
(* Properties of the role store                                            *)
(***************************************************************************)
RoleWriteKinds == {"role_create", "role_update"}

\* the stored roles as a read reports them
StoredRole(n) == toResponseData(getRole(roles[n]))

\* C11: after any sequence of creates, partial updates and deletes every
\* stored role has max_ttl = 0 or ttl <= max_ttl; this covers the partial
\* update that supplies only ttl or only max_ttl, which is held against the
\* other value already stored.
C11_StoredRolesRespectMaxTTL ==
  \A n \in RoleNames :
    roles[n] # Nil => roles[n].max_ttl = 0 \/ roles[n].ttl <= roles[n].max_ttl

\* an update that supplied only ttl has been accepted for a role stored with
\* a limit
C11_Witness ==
  \E p \in Procs :
    /\ pc[p] = "done" /\ op[p].kind = "role_update" /\ result[p] = Ok
    /\ DOMAIN op[p].data = {"ttl"}
    /\ roles[op[p].name].max_ttl # 0
    /\ roles[op[p].name].ttl # 0

StringRoleKeys == {"user", "realm"}
DurationRoleKeys == {"ttl", "max_ttl"}

\* the duration field k, in seconds, that the write o asks for given the
\* stored roles st: the supplied value, else 0 on a create or for a new
\* name, else the stored value
ResultingSeconds(o, st, k) ==
  IF k \in DOMAIN o.data THEN o.data[k]
  ELSE IF o.kind = "role_create" \/ st[o.name] = Nil THEN 0
  ELSE toResponseData(getRole(st[o.name]))[k]

\* the write o asks for a ttl above a max_ttl that is not 0
LimitBroken(o, st) ==
  /\ o.name \in RoleNames
  /\ ResultingSeconds(o, st, "max_ttl") # 0
  /\ ResultingSeconds(o, st, "ttl") > ResultingSeconds(o, st, "max_ttl")

\* the create o names its user and realm
NamesIdentity(o) ==
  o.kind = "role_create" =>
    \A k \in StringRoleKeys : k \in DOMAIN o.data /\ o.data[k] # ""

\* C12: a role write whose resulting ttl exceeds a max_ttl that is not 0
\* ends at once and leaves the stored roles as they were; when storage
\* answered the lookup and a create named its user and realm, so that the
\* write has a resulting role, the answer is an error response and not a Go
\* error.
C12_RefusedWriteLeavesStorage ==
  [][\A p \in Procs :
       (/\ pc[p] = "idle" /\ pc'[p] # "idle"
        /\ op'[p].kind \in RoleWriteKinds
        /\ LimitBroken(op'[p], roles))
       => /\ pc'[p] = "done"
          /\ roles' = roles
          /\ ((NamesIdentity(op'[p]) /\ result'[p] # Error("storage get failed"))
               => result'[p] = [kind |-> "error_response",
                                err |-> "ttl cannot be greater than max_ttl"])]_vars

\* an update without ttl has been refused for a role that is stored
C12_Witness ==
  \E p \in Procs :
    /\ pc[p] = "done" /\ op[p].kind = "role_update"
    /\ result[p].kind = "error_response"
    /\ "ttl" \notin DOMAIN op[p].data
    /\ roles[op[p].name] # Nil

\* the accepted write of p is being put and succeeds
Accepted(p) == pc[p] = "rw_put" /\ pc'[p] = "done" /\ result'[p] = Ok

\* C13 as stated: after an accepted write the role reads back with every
\* supplied user, realm, ttl and max_ttl; a create leaves ttl and max_ttl
\* that were not supplied at 0; an update of a stored role keeps every field
\* that was not supplied.
C13_ReadBackSupplied ==
  [][\A p \in Procs :
       Accepted(p) =>
         LET n == op[p].name
             data == op[p].data
             new == toResponseData(getRole(roles'[n]))
         IN  /\ \A k \in DOMAIN data : new[k] = data[k]
             /\ (op[p].kind = "role_create" =>
                   \A k \in DurationRoleKeys \ DOMAIN data : new[k] = 0)
             /\ ((op[p].kind = "role_update" /\ roles[n] # Nil) =>
                   \A k \in (StringRoleKeys \cup DurationRoleKeys) \ DOMAIN data :
                     new[k] = StoredRole(n)[k])]_vars

\* the user and realm that a request supplies with a value
NonEmptySupplied(data) == {k \in StringRoleKeys \cap DOMAIN data : data[k] # ""}

\* C13 (amended): after an accepted write the role reads back with every
\* supplied ttl and max_ttl and every supplied user and realm that is not
\* empty; a create leaves ttl and max_ttl that were not supplied at 0; an
\* update of a stored role keeps every field that was not supplied, and
\* keeps the user or realm that was supplied empty.
C13_ReadBackSuppliedNonEmpty ==
  [][\A p \in Procs :
       Accepted(p) =>
         LET n == op[p].name
             data == op[p].data
             set == NonEmptySupplied(data) \cup (DurationRoleKeys \cap DOMAIN data)
             new == toResponseData(getRole(roles'[n]))
         IN  /\ \A k \in set : new[k] = data[k]
             /\ (op[p].kind = "role_create" =>
                   \A k \in DurationRoleKeys \ DOMAIN data : new[k] = 0)
             /\ ((op[p].kind = "role_update" /\ roles[n] # Nil) =>
                   \A k \in (StringRoleKeys \cup DurationRoleKeys) \ set :
                     new[k] = StoredRole(n)[k])]_vars

\* an update that supplied an empty user and a ttl has been accepted; the
\* role keeps its user and has the new ttl
C13_Witness ==
  \E p \in Procs :
    /\ pc[p] = "done" /\ op[p].kind = "role_update" /\ result[p] = Ok
    /\ {"user", "ttl"} \subseteq DOMAIN op[p].data
    /\ op[p].data.user = ""
    /\ StoredRole(op[p].name).user # ""
    /\ StoredRole(op[p].name).ttl = op[p].data.ttl
    /\ op[p].data.ttl # 0

\* p answers the request it has just been given
Answers(p, kinds) == pc[p] = "idle" /\ pc'[p] = "done" /\ op'[p].kind \in kinds

\* C14: a role delete fails only when the storage delete does, whether or
\* not the role is stored; it removes the record of that name and no other,
\* so that deleting again changes nothing; a read of a name that is not
\* stored answers absent without an error; a lookup with the empty name, by
\* a read or by a write, fails with an error.
C14_DeleteAndLookup ==
  [][\A p \in Procs :
       /\ Answers(p, {"role_delete"}) =>
            /\ result'[p] = Ok \/ result'[p] = Error("error deleting role")
            /\ (result'[p] = Ok =>
                  \A n \in RoleNames :
                    roles'[n] = IF n = op'[p].name THEN Nil ELSE roles[n])
       /\ (Answers(p, {"role_read"}) /\ op'[p].name \in RoleNames) =>
            (roles[op'[p].name] = Nil =>
               \/ result'[p] = [kind |-> "absent"]
               \/ result'[p] = Error("storage get failed"))
       /\ (Answers(p, {"role_read"} \cup RoleWriteKinds) /\ op'[p].name = "") =>
            result'[p] = Error("missing role name")]_vars

\* a delete has succeeded and the role of the other name is still stored
C14_Witness ==
  \E p \in Procs :
    /\ pc[p] = "done" /\ op[p].kind = "role_delete" /\ result[p] = Ok
    /\ op[p].name \in RoleNames
    /\ roles[op[p].name] = Nil
    /\ \E n \in RoleNames \ {op[p].name} : roles[n] # Nil

\* C15: the names a role list answers with are exactly the names written
\* successfully and not deleted since.
C15_ListIsWrittenNotDeleted ==
  \A p \in Procs :
    (pc[p] = "done" /\ op[p].kind = "role_list" /\ result[p].kind = "list")
      => result[p].keys = written

\* a list has answered with some of the names and not all of them
C15_Witness ==
  \E p \in Procs :
    /\ pc[p] = "done" /\ op[p].kind = "role_list" /\ result[p].kind = "list"
    /\ result[p].keys # {}
    /\ result[p].keys # RoleNames

(***************************************************************************)
(* Properties of credentials                                               *)
(***************************************************************************)
\* p finishes a credentials request with a secret
Issues(p) ==
  /\ pc[p] # "done" /\ pc'[p] = "done"
  /\ op'[p].kind = "creds_read" /\ result'[p].kind = "secret"

\* C16: a creds read that succeeds answers with a token_id that is not
\* empty and is the identifier of the API token created for the role's user
\* and realm on the remote side, with token_id_full = user "@" realm "!"
\* token_id of the stored role, and with the secret the remote create call
\* returned; a creds read for a name that is not stored fails at once, with
\* no client built and no token created.
C16_CredsResponse ==
  [][\A p \in Procs :
       /\ Issues(p) =>
            LET d == result'[p].data
                role == StoredRole(op[p].name)
            IN  /\ pc[p] = "cc_respond"
                /\ d.token_id # ""
                /\ local[p].sent \in remote
                /\ d.token_id = local[p].sent.tokenId
                /\ local[p].sent.user = role.user
                /\ local[p].sent.realm = role.realm
                /\ d.token_id_full =
                     role.user \o "@" \o role.realm \o "!" \o d.token_id
                /\ d.secret = local[p].token.Secret
       /\ (/\ Answers(p, {"creds_read"}) \/ (pc[p] = "idle" /\ pc'[p] = "ct_getClient")
           /\ op'[p].name \in RoleNames
           /\ roles[op'[p].name] = Nil)
          => /\ pc'[p] = "done"
             /\ result'[p].kind = "error"
             /\ remote' = remote /\ client' = client]_vars

\* the role of the acceptance test has been given its token
C16_Witness ==
  \E p \in Procs :
    /\ pc[p] = "done" /\ op[p].kind = "creds_read" /\ result[p].kind = "secret"
    /\ result[p].data.token_id_full = "alice@pve!ga-h"
    /\ result[p].data.secret = "s2"

\* p has answered a credentials request with a secret
Issued(p) ==
  pc[p] = "done" /\ op[p].kind = "creds_read" /\ result[p].kind = "secret"

\* C17: the internal data of an issued lease is exactly the token_id of the
\* response and the name of the role; no entry of it is the secret.
C17_InternalDataWithoutSecret ==
  \A p \in Procs :
    Issued(p) =>
      /\ DOMAIN result[p].internal = {"token_id", "role"}
      /\ result[p].internal.token_id = result[p].data.token_id
      /\ result[p].internal.role = op[p].name
      /\ \A k \in DOMAIN result[p].internal :
           result[p].internal[k] # result[p].data.secret

\* a lease has been issued for the second role
C17_Witness ==
  \E p \in Procs : Issued(p) /\ result[p].internal.role = "db"

\* C18: the lease of an issued response has a ttl exactly when the role's
\* TTL is above 0, and then it is the role's TTL; it has a max_ttl exactly
\* when the role's MaxTTL is above 0, and then it is the role's MaxTTL.
C18_LeaseFollowsRole ==
  \A p \in Procs :
    Issued(p) =>
      LET role == getRole(roles[op[p].name])
          lease == result[p].lease
      IN  /\ "ttl" \in DOMAIN lease <=> role.TTL > 0
          /\ "ttl" \in DOMAIN lease => lease.ttl = role.TTL
          /\ "max_ttl" \in DOMAIN lease <=> role.MaxTTL > 0
          /\ "max_ttl" \in DOMAIN lease => lease.max_ttl = role.MaxTTL

\* a lease has been issued with a ttl and without a max_ttl
C18_Witness ==
  \E p \in Procs :
    /\ Issued(p)
    /\ DOMAIN result[p].lease = {"ttl"}
    /\ result[p].lease.ttl = DurationOfSeconds(300)

(***************************************************************************)
(* Properties of the token identifier                                      *)
(***************************************************************************)
Digits == {"0", "1", "2", "3", "4", "5", "6", "7", "8", "9"}

LettersAToP ==
  {"a", "b", "c", "d", "e", "f", "g", "h", "i", "j", "k", "l", "m", "n", "o", "p"}

\* C19: the token identifier made of a lower-case hexadecimal UUID string
\* consists of the letters a..p and "-" only, so it has no decimal digit,
\* and its first character is a letter.
C19_TokenIdAlphabet ==
  tokenId # <<>> =>
    /\ \A i \in 1..Len(tokenId) :
         tokenId[i] \in LettersAToP \cup {"-"} /\ tokenId[i] \notin Digits
    /\ tokenId[1] \in LettersAToP

\* an identifier of digits only has been remapped
C19_Witness == rawTokenId = <<"9", "0">> /\ tokenId = <<"p", "g">>

\* C20: two different source identifiers never have the same token
\* identifier: no source identifier other than the one that was remapped
\* gives the token identifier that came out.
C20_RemapInjective ==
  tokenId # <<>> =>
    \A other \in SourceIds : other # rawTokenId => Replace(other) # tokenId

\* an identifier that mixes a digit and a letter has been remapped
C20_Witness == rawTokenId = <<"0", "a">> /\ tokenId = <<"g", "a">>


(***************************************************************************)
(* The lock of the backend under fair scheduling (backend.go 54-94)        *)
(***************************************************************************)
\* the entry the storage holds once the full profile was written
StoredProfile ==
  StorageEntryJSON(pathConfigWriteMerge(Nil, FullRequest, TRUE).config)

\* the backend after the profile was written
InitLock ==
  /\ storage = StoredProfile
  /\ client = Nil
  /\ readers = {}
  /\ wholder = 0
  /\ wactive = FALSE
  /\ pc = [p \in Procs |-> "idle"]
  /\ op = [p \in Procs |-> [kind |-> "none"]]
  /\ local = [p \in Procs |-> Nil]
  /\ result = [p \in Procs |-> [kind |-> "none"]]
  /\ nextId = 1
  /\ returned = {}
  /\ roles = [n \in RoleNames |-> Nil]
  /\ written = {}
  /\ caller = [p \in Procs |-> Nil]
  /\ remote = {}
  /\ usedUuids = {}
  /\ rawTokenId = <<>>
  /\ tokenId = <<>>
  /\ leases = {}

\* line 67, first half: getClient is called and b.lock.RLock() is entered;
\* the goroutine waits while a writer holds or awaits the lock
getClientCall(p) ==
  /\ Begin(p, [kind |-> "getClient"])
  /\ nextId + Cardinality({q \in Procs : pc[q] \in BuildAhead \cup {"gc_rlock"}})
       <= MaxBuilds
  /\ Goto(p, "gc_rlock")
  /\ local' = [local EXCEPT ![p] = Nil]
  /\ result' = [result EXCEPT ![p] = [kind |-> "none"]]
  /\ UNCHANGED <<storage, client, lockVars, nextId, returned>>
  /\ UNCHANGED engineVars

\* lines 67-69, second half: b.lock.RLock() returns; unlockFunc is
\* b.lock.RUnlock
getClientRLocked(p) ==
  /\ pc[p] = "gc_rlock"
  /\ RLock(p)
  /\ Goto(p, "gc_check")
  /\ local' = [local EXCEPT ![p] = [unlockFunc |-> "RUnlock"]]
  /\ UNCHANGED <<storage, client, op, result, nextId, returned>>
  /\ UNCHANGED engineVars

\* the steps of a goroutine that wait for nothing, and the return of Lock,
\* which waits for the readers to leave
Running(p) ==
  \/ getClientCheck(p)
  \/ getClientRUnlock(p)
  \/ getClientLocked(p)
  \/ getClientGetConfig(p)
  \/ getClientNewClient(p)
  \/ getClientReturn(p)
  \/ resetLocked(p)
  \/ resetClear(p)

\* the steps that wait for the lock to be free of writers: RLock, and the
\* first half of Lock
Entering(p) ==
  \/ getClientRLocked(p)
  \/ getClientLock(p)
  \/ resetLock(p)

\* the steps of goroutine p when only getClient and reset are called
LockStep(p) ==
  \/ getClientCall(p)
  \/ invalidate(p, configStoragePath)
  \/ Entering(p)
  \/ Running(p)
  \/ Finish(p)

NextLock == \E p \in Procs : LockStep(p)

\* the scheduler runs every goroutine that can run; a goroutine in RLock or
\* in the first half of Lock gets the lock once it is free often enough
\* (readers that wait are let in when the writer unlocks, and the mutex of
\* the writers hands over to the longest waiter); Lock returns once the
\* readers have left
FairLock == \A p \in Procs : WF_vars(Running(p)) /\ SF_vars(Entering(p))

SpecLock == InitLock /\ [][NextLock]_vars /\ FairLock

\* goroutine p holds the lock for reading, for writing
HoldsRead(p) == p \in readers
HoldsWrite(p) == wholder = p /\ wactive

\* goroutine p is inside getClient or reset
InsideLockCall(p) == pc[p] \notin {"idle", "done"}

\* C28: getClient returns by releasing the mode of the lock it holds, it
\* holds exactly that mode then and no goroutine holds the lock after its
\* call returned; the cached handle changes only under the lock held for
\* writing; every call of getClient and of reset returns
C28_LockDiscipline ==
  /\ [](\A p \in Procs :
          /\ (pc[p] = "gc_return" /\ local[p].unlockFunc = "RUnlock") =>
                (HoldsRead(p) /\ wholder # p)
          /\ (pc[p] = "gc_return" /\ local[p].unlockFunc = "Unlock") =>
                (HoldsWrite(p) /\ ~HoldsRead(p))
          /\ ~InsideLockCall(p) => (~HoldsRead(p) /\ wholder # p))
  /\ [][client' # client => \E p \in Procs : HoldsWrite(p)]_vars
  /\ \A p \in Procs : InsideLockCall(p) ~> (pc[p] = "done")

\* every way out of getClient has been taken: a cached handle, a failed
\* read of the profile, a failed build and a build; a reset has returned
\* as well
C28_Witness ==
  /\ \A p \in Procs : pc[p] \in {"idle", "done"}
  /\ \E p \in Procs : pc[p] = "done" /\ op[p].kind = "getClient"
                        /\ result[p].kind = "client"
  /\ client # Nil
  /\ nextId > 1
  /\ readers = {}
  /\ wholder = 0

(***************************************************************************)
(* Concurrent updates of the profile (path_config.go 161-244)              *)
(***************************************************************************)
\* updates with disjoint fields, one for each goroutine in turn
UpdateRequests ==
  <<Only("user", "bob"), Only("realm", "pve"), Only("token_secret", "s2")>>

UpdateOf(p) == UpdateRequests[((p - 1) % Len(UpdateRequests)) + 1]

\* the steps of goroutine p when it updates its field of the profile
UpdateStep(p) ==
  \/ pathConfigWrite(p, UpdateOf(p), FALSE)
  \/ pathConfigWritePut(p)
  \/ resetLock(p)
  \/ resetLocked(p)
  \/ resetClear(p)
  \/ Finish(p)

NextUpdates == \E p \in Procs : UpdateStep(p)

SpecUpdates == InitLock /\ [][NextUpdates]_vars

\* the stored profile holds every value the request supplied
HoldsSupplied(data) == \A k \in DOMAIN data : storage[k] = data[k]

\* the update of goroutine p has returned successfully
Updated(p) == pc[p] = "done" /\ op[p].kind = "config_update" /\ result[p] = Ok

\* C29: once two updates with disjoint fields have both returned
\* successfully, the stored profile holds the values of each
C29_NoLostUpdate ==
  \A p, q \in Procs :
    (p # q /\ Updated(p) /\ Updated(q)) =>
      (HoldsSupplied(op[p].data) /\ HoldsSupplied(op[q].data))

(***************************************************************************)
(* Properties of revoke and renew                                          *)
(***************************************************************************)
\* the role a secret names is not stored, or the secret names none
RoleGone(secret) == StoredRoleOf(secret) = Nil

\* the tokens on the remote side that carry the identifier of a secret
TokensOf(secret) == {t \in remote : t.tokenId = RevokeTokenID(secret)}

\* C21: a revoke of a lease whose role is no longer stored, or whose
\* internal data names no role, never reaches the remote delete call,
\* leaves the tokens of the remote side as they are and returns an error
C21_RevokeWithoutRoleFails ==
  [][\A p \in Procs :
       (op'[p].kind = "revoke" /\ RoleGone(op'[p].secret)) =>
         /\ pc'[p] # "rv_delete"
         /\ remote' = remote
         /\ (pc'[p] = "done" => result'[p].kind = "error")]_vars

\* a lease was revoked after its role was deleted: the answer is the error
\* of the missing role and the token of the lease is still on the remote side
C21_Witness ==
  \E p \in Procs :
    /\ pc[p] = "done"
    /\ op[p].kind = "revoke"
    /\ op[p].secret \in leases
    /\ roles[op[p].secret.internal.role] = Nil
    /\ result[p] = Error("error retrieving role: role is nil")
    /\ TokensOf(op[p].secret) # {}
\* C22: a renew that succeeded answers with the lease limits an Issue
\* would set for the role as it is stored now, and a renew whose role is
\* no longer stored fails
C22_RenewAppliesCurrentRole ==
  \A p \in Procs :
    (pc[p] = "done" /\ op[p].kind = "renew") =>
      IF RoleGone(op[p].secret)
        THEN result[p].kind = "error"
        ELSE result[p].kind = "renewed" =>
               result[p].secret.lease = LeaseOptions(getRole(StoredRoleOf(op[p].secret)))
\* the places of a request where the remote side is called
RemoteCallSites == {"ct_client", "rv_delete"}

\* C23: no request repeats a remote call.  A request at the create-token
\* call goes on to its response or ends, one at the delete-token call ends;
\* the call adds or removes at most one token; a call that failed ends the
\* request with an error and the tokens untouched; no other step touches
\* the tokens, and a request that ended with an error leaves no lease
C23_NoRetry ==
  [][/\ \A p \in Procs :
          /\ pc[p] = "ct_client" =>
                /\ pc'[p] \in {"cc_respond", "done"}
                /\ remote \subseteq remote'
                /\ Cardinality(remote' \ remote) <= 1
                /\ (pc'[p] = "done" =>
                      result'[p].kind = "error" /\ remote' = remote)
          /\ pc[p] = "cc_respond" => pc'[p] = "done"
          /\ pc[p] = "rv_delete" =>
                /\ pc'[p] = "done"
                /\ remote' \subseteq remote
                /\ Cardinality(remote \ remote') <= 1
                /\ (result'[p].kind = "error" => remote' = remote)
          /\ (pc[p] = "done" /\ result[p].kind = "error") =>
                leases' \subseteq leases
     /\ (\A p \in Procs : pc[p] \notin RemoteCallSites) => remote' = remote]_vars

\* an Issue ended with the error of its create-token call: an identifier
\* was drawn for the one call, no token and no lease exist
C23_Witness ==
  \E p \in Procs :
    /\ pc[p] = "done"
    /\ op[p].kind = "creds_read"
    /\ result[p].kind = "error"
    /\ usedUuids # {}
    /\ remote = {}
    /\ leases = {}
\* C24: a revoke that returned success asked the remote side to delete the
\* token minted for its lease, under the user and realm the token was
\* created for, and that token is gone afterwards
C24_RevokeDeletesMinted ==
  [][\A p \in Procs :
       (pc[p] = "rv_delete" /\ pc'[p] = "done" /\ result'[p] = Ok) =>
         /\ \A t \in TokensOf(op[p].secret) :
              /\ t.user = local[p].roleEntry.User
              /\ t.realm = local[p].roleEntry.Realm
         /\ {t \in remote' : t.tokenId = RevokeTokenID(op[p].secret)} = {}]_vars
\* C25: a renew is one step that touches neither the lock, the cached
\* handle, the stored profile, the stored roles nor the tokens of the remote
\* side; it fails only for its role, whatever profile is stored; the secret
\* it answers with has the internal data of the request, and renewing that
\* secret again for the same role yields the same lease limits
C25_RenewIsPure ==
  [][\A p \in Procs :
       (op[p].kind = "none" /\ op'[p].kind = "renew") =>
         /\ pc'[p] = "done"
         /\ UNCHANGED <<storage, client, lockVars, nextId, roles, remote>>
         /\ (result'[p].kind = "error") =>
               \/ RoleGone(op'[p].secret)
               \/ result'[p].err = "error retrieving role: storage get failed"
         /\ (result'[p].kind = "renewed") =>
               /\ result'[p].secret.internal = op'[p].secret.internal
               /\ RenewedSecret(result'[p].secret,
                                getRole(StoredRoleOf(op'[p].secret))).lease
                    = result'[p].secret.lease]_vars

\* a lease was renewed while no profile was stored and no handle cached
C25_Witness ==
  \E p \in Procs :
    /\ pc[p] = "done"
    /\ op[p].kind = "renew"
    /\ result[p].kind = "renewed"
    /\ op[p].secret \in leases
    /\ storage = Nil
    /\ client = Nil
    /\ remote # {}
\* no profile is stored, or the stored one has an empty token id
NoAdminToken == getConfig(storage) = Nil \/ getConfig(storage).ApiTokenID = ""

\* C26: while no profile is stored or the stored one has an empty token
\* id, building the handle for an Issue or a revoke fails with the error
\* of the undefined token, no handle is cached, the request reaches no
\* remote call, leaves the tokens as they are and ends with an error
C26_NoHandleWithoutToken ==
  [][\A p \in Procs :
       (op'[p].kind \in {"creds_read", "revoke"} /\ NoAdminToken') =>
         /\ client' = Nil
         /\ remote' = remote
         /\ pc'[p] \notin {"cc_respond", "rv_delete"}
         /\ (pc[p] = "gc_newClient" =>
               result'[p] = Error("client api token was not defined"))
         /\ (pc'[p] = "done" => result'[p].kind = "error")]_vars

\* a lease was revoked while no profile was stored: the revoke failed with
\* the error of the undefined token, and the token is still there
C26_Witness ==
  \E p \in Procs :
    /\ pc[p] = "done"
    /\ op[p].kind = "revoke"
    /\ op[p].secret \in leases
    /\ ~RoleGone(op[p].secret)
    /\ storage = Nil
    /\ client = Nil
    /\ result[p] = Error("error getting client: client api token was not defined")
    /\ TokensOf(op[p].secret) # {}
\* C27: the token an Issue sends to the remote create call expires at 0
\* when the TTL of the role is 0, else at the whole second the clock plus
\* the TTL falls in; its privilege separation is off
C27_ExpiryFollowsTTL ==
  \A p \in Procs :
    pc[p] = "cc_respond" =>
      LET sent == local[p].sent
          due  == local[p].now + caller[p].role.TTL
      IN  /\ sent.privsep = FALSE
          /\ IF caller[p].role.TTL = 0
               THEN sent.expire = 0
               ELSE /\ sent.expire * Second <= due
                    /\ due < (sent.expire + 1) * Second

\* a token was created for a role with a TTL, at a clock reading between
\* two whole seconds
C27_Witness ==
  \E p \in Procs :
    /\ pc[p] = "cc_respond"
    /\ caller[p].role.TTL > 0
    /\ local[p].now % Second # 0
    /\ local[p].sent.expire > 0
    /\ local[p].sent \in remote
\* C30: every stored role has a user and a realm that are not empty
C30_StoredRolesHaveIdentity ==
  \A n \in RoleNames :
    roles[n] # Nil => (getRole(roles[n]).User # "" /\ getRole(roles[n]).Realm # "")
====
